---- MODULE Spec2Model ----
(***************************************************************************)
(* Midas: queue-backed token monitoring (Supabase edge functions).         *)
(*                                                                         *)
(* The module models the shared tables (tokens, token_hotness,             *)
(* historical_records, token_stats_queue and its dead-letter companion),   *)
(* the edge-function handlers that read and write them, and the two pure   *)
(* helpers of _shared/types.ts.  process-stats, archive-expired and        *)
(* read-messages take one atomic step per database round trip, so that     *)
(* concurrent invocations interleave between statements; discover is one   *)
(* atomic step, except in SpecEnqueue, where its enqueue loop runs attempt  *)
(* by attempt next to the queue-tokens sweep.                               *)
(*                                                                         *)
(* Numbers are JavaScript numbers in the source.  All figures used here    *)
(* are integers, and a comparison of a quotient with a decimal constant is *)
(* evaluated exactly by cross-multiplication (Ratio/RatioLt/RatioGe), with *)
(* the IEEE-754 outcomes of a division by zero (NaN, +-Infinity) kept.     *)
(* Timestamps are milliseconds; a nullable value is <<>> or <<v>>.         *)
(***************************************************************************)
EXTENDS Integers, Naturals, Sequences, FiniteSets, TLC

VARIABLES
    now,                \* wall clock (ms)
    tokens,             \* table tokens: mint -> row
    token_hotness,      \* table token_hotness: sequence of rows
    historical_records, \* table historical_records: sequence of rows
    queue,              \* table token_stats_queue: id -> row
    dlq,                \* table token_stats_queue_dlq: sequence of payloads
    nextId,             \* SERIAL of token_stats_queue.id
    apiCalls,           \* number of Solana Tracker requests made so far
    ps,                 \* process-stats invocations: worker -> local state
    ae,                 \* archive-expired invocation: local state
    rm,                 \* read-messages invocations: caller -> local state
    cls,                \* a call of checkTokenHotness: arguments and result
    rt,                 \* a message under calculateNextRetryTime
    dr,                 \* discover: the response for the latest candidate
    pr,                 \* process-stats: the response of the latest invocation
    ing,                \* discover, step by step: the candidate being enqueued
    qt                  \* queue-tokens invocation: local state

vars == <<now, tokens, token_hotness, historical_records, queue, dlq, nextId,
          apiCalls, ps, ae, rm, cls, rt, dr, pr, ing, qt>>

-----------------------------------------------------------------------------
(* Bounds of the model *)

MaxTick == 1
MaxApiCalls == 5
MaxMsgs == 1
MaxArg == 3
MaxRetryTicks == 2
MaxEnqueue == 2
MaxIngest == 2
MaxSweepCalls == 4

(* Program constants *)

HOTNESS_CHECK_THRESHOLD == 600000
MAX_RETRIES == 3
BASE_DELAY_MS == 5000
MAX_DELAY_MS == 60000
BATCH_LIMIT == 10
MONITOR_WINDOW_MS == 21600000
SHARED_MAX_RETRIES == 5
SHARED_BASE_DELAY_MS == 2000
SHARED_MAX_DELAY_MS == 300000
SHARED_JITTER_MS == 1000
VISIBILITY_TIMEOUT_S == 30
RESET_STUCK_AFTER_MS == 3600000
MAX_QUEUE_RETRIES == 3
QUEUE_BACKOFF_BASE_MS == 1000
QUEUE_BACKOFF_MAX_MS == 8000

Mints == {"m1"}
Workers == {"w1", "w2"}
Callers == {"r1", "r2"}

Null == <<>>
Some(v) == <<v>>

RECURSIVE Pow2(_)
Pow2(n) == IF n = 0 THEN 1 ELSE 2 * Pow2(n - 1)

Min(a, b) == IF a < b THEN a ELSE b

-----------------------------------------------------------------------------
(* JavaScript division x / c compared with the decimal p / 100.            *)

Ratio(x, c) ==
    IF c # 0 THEN "finite"
    ELSE IF x > 0 THEN "posinf"
    ELSE IF x < 0 THEN "neginf"
    ELSE "nan"

\* (x / c) < p / 100
RatioLt(x, c, p) ==
    CASE Ratio(x, c) = "nan" -> FALSE
      [] Ratio(x, c) = "posinf" -> FALSE
      [] Ratio(x, c) = "neginf" -> TRUE
      [] OTHER -> IF c > 0 THEN 100 * x < p * c ELSE 100 * x > p * c

\* (x / c) >= p / 100
RatioGe(x, c, p) ==
    CASE Ratio(x, c) = "nan" -> FALSE
      [] Ratio(x, c) = "posinf" -> TRUE
      [] Ratio(x, c) = "neginf" -> FALSE
      [] OTHER -> IF c > 0 THEN 100 * x >= p * c ELSE 100 * x <= p * c

-----------------------------------------------------------------------------
(* _shared/types.ts: checkTokenHotness *)

checkTokenHotness_NoNetCheck(startMarketCap, currentMarketCap, cumulativeBuyVolume, cumulativeNetVolume, currentLiquidity) ==
    IF currentMarketCap < startMarketCap * 3
    THEN [isHot |-> FALSE, reason |-> "Market cap growth less than 3x"]
    ELSE IF RatioLt(cumulativeBuyVolume, currentMarketCap, 5)
    THEN [isHot |-> FALSE, reason |-> "Buy volume ratio less than 5%"]
    ELSE IF RatioLt(currentLiquidity, currentMarketCap, 3)
    THEN [isHot |-> FALSE, reason |-> "Liquidity ratio less than 3%"]
    ELSE [isHot |-> TRUE, reason |-> "none"]

\* checkTokenHotness with the liquidity check ahead of the net volume check
checkTokenHotness_LiquidityFirst(startMarketCap, currentMarketCap, cumulativeBuyVolume, cumulativeNetVolume, currentLiquidity) ==
    IF currentMarketCap < startMarketCap * 3
    THEN [isHot |-> FALSE, reason |-> "Market cap growth less than 3x"]
    ELSE IF RatioLt(cumulativeBuyVolume, currentMarketCap, 5)
    THEN [isHot |-> FALSE, reason |-> "Buy volume ratio less than 5%"]
    ELSE IF RatioLt(currentLiquidity, currentMarketCap, 3)
    THEN [isHot |-> FALSE, reason |-> "Liquidity ratio less than 3%"]
    ELSE IF cumulativeNetVolume <= 0
    THEN [isHot |-> FALSE, reason |-> "Net volume not positive"]
    ELSE [isHot |-> TRUE, reason |-> "none"]

checkTokenHotness(startMarketCap, currentMarketCap, cumulativeBuyVolume, cumulativeNetVolume, currentLiquidity) ==
    IF currentMarketCap < startMarketCap * 3
    THEN [isHot |-> FALSE, reason |-> "Market cap growth less than 3x"]
    ELSE IF RatioLt(cumulativeBuyVolume, currentMarketCap, 5)
    THEN [isHot |-> FALSE, reason |-> "Buy volume ratio less than 5%"]
    ELSE IF cumulativeNetVolume <= 0
    THEN [isHot |-> FALSE, reason |-> "Net volume not positive"]
    ELSE IF RatioLt(currentLiquidity, currentMarketCap, 3)
    THEN [isHot |-> FALSE, reason |-> "Liquidity ratio less than 3%"]
    ELSE [isHot |-> TRUE, reason |-> "none"]

\* process-stats/index.ts: the inline hotness criteria
isHot(startMarketCap, marketCapUsd, updatedBuyVolume, updatedNetVolume, liquidityUsd) ==
    /\ marketCapUsd >= 3 * startMarketCap
    /\ RatioGe(updatedBuyVolume, marketCapUsd, 5)
    /\ updatedNetVolume > 0
    /\ 100 * liquidityUsd >= 3 * marketCapUsd

-----------------------------------------------------------------------------
(* Retry policy *)

\* process-stats/index.ts: no exponent (a plausible slip of the backoff)
calculateNextRetryTime_Flat(retryCount, t) ==
    t + Min(BASE_DELAY_MS, MAX_DELAY_MS)

\* process-stats/index.ts: calculateNextRetryTime, with new Date() = t
calculateNextRetryTime(retryCount, t) ==
    t + Min(BASE_DELAY_MS * Pow2(retryCount), MAX_DELAY_MS)

\* _shared/types.ts: calculateNextRetryTime, with Date.now() = t and
\* Math.random() * JITTER_MS = jitter
sharedCalculateNextRetryTime(retryCount, jitter, t) ==
    t + Min(SHARED_BASE_DELAY_MS * Pow2(retryCount) + jitter, SHARED_MAX_DELAY_MS)

\* Sampled values of Math.random() * JITTER_MS, which lies in [0, JITTER_MS)
Jitters == {100 * k : k \in 0 .. ((SHARED_JITTER_MS - 1) \div 100)} \cup {SHARED_JITTER_MS - 1}

-----------------------------------------------------------------------------
(* Idle values of the parts a specification does not exercise *)

EmptyTable == [k \in {} |-> 0]

PsIdle ==
    [pc |-> "idle", batch |-> <<>>, i |-> 0, stats |-> Null, hotToken |-> Null,
     token |-> Null, successCount |-> 0, failureCount |-> 0]

AeIdle == [pc |-> "idle", expiredTokens |-> {}]

RmIdle == [pc |-> "idle", messages |-> {}, returned |-> {}, at |-> 0]

DrIdle == [validTokens |-> {}, rejectedTokens |-> {}]

PrNone == [status |-> 0, summary |-> <<>>]

IngIdle == [pc |-> "idle", mint |-> "", queueRetries |-> 0, queueSuccess |-> FALSE,
            backoffMs |-> 0]

QtIdle == [pc |-> "idle", toQueue |-> {}]

TablesEmpty ==
    /\ now = 0
    /\ tokens = EmptyTable
    /\ token_hotness = <<>>
    /\ historical_records = <<>>
    /\ queue = EmptyTable
    /\ dlq = <<>>
    /\ nextId = 1
    /\ apiCalls = 0
    /\ ps = [w \in Workers |-> PsIdle]
    /\ ae = AeIdle
    /\ rm = [c \in Callers |-> RmIdle]
    /\ dr = DrIdle
    /\ pr = PrNone
    /\ ing = IngIdle
    /\ qt = QtIdle

ClsIdle == [pc |-> "idle", startMarketCap |-> 0, currentMarketCap |-> 0,
            cumulativeBuyVolume |-> 0, cumulativeNetVolume |-> 0,
            currentLiquidity |-> 0, result |-> [isHot |-> FALSE, reason |-> "none"],
            inline |-> FALSE]

RtIdle == [variant |-> "idle", retryCount |-> 0, t |-> 0,
           delay |-> Null, nextRetryTime |-> Null]

mainVars == <<now, tokens, token_hotness, historical_records, queue, dlq, nextId,
              apiCalls, ps, ae, rm, dr, pr, ing, qt>>

-----------------------------------------------------------------------------
(* Specification SpecClassify: checkTokenHotness, and the inline criteria   *)
(* of process-stats, applied to bounded inputs.                            *)
(* Valuations are multiples of 20 so that both ratio thresholds fall       *)
(* inside the range of the volume and liquidity arguments.                 *)

ClsArgs == (0 - 1) .. MaxArg

ClsInit ==
    /\ TablesEmpty
    /\ rt = RtIdle
    /\ \E s \in ClsArgs, c \in ClsArgs, b \in ClsArgs, n \in ClsArgs, l \in ClsArgs :
         cls = [pc |-> "args", startMarketCap |-> 20 * s, currentMarketCap |-> 20 * c,
                cumulativeBuyVolume |-> b, cumulativeNetVolume |-> n,
                currentLiquidity |-> l, result |-> [isHot |-> FALSE, reason |-> "none"],
                inline |-> FALSE]

ClsCall ==
    /\ cls.pc = "args"
    /\ cls' = [cls EXCEPT !.pc = "done",
                          !.result = checkTokenHotness(cls.startMarketCap, cls.currentMarketCap,
                                                       cls.cumulativeBuyVolume,
                                                       cls.cumulativeNetVolume,
                                                       cls.currentLiquidity),
                          !.inline = isHot(cls.startMarketCap, cls.currentMarketCap,
                                           cls.cumulativeBuyVolume,
                                           cls.cumulativeNetVolume,
                                           cls.currentLiquidity)]
    /\ UNCHANGED <<mainVars, rt>>

ClsNext == ClsCall

SpecClassify == ClsInit /\ [][ClsNext]_vars

-----------------------------------------------------------------------------
(* Specification SpecRetry: one message failing repeatedly, rescheduled by *)
(* either retry policy, with the clock advancing between failures.         *)

RtMaxRetries == IF rt.variant = "shared" THEN SHARED_MAX_RETRIES ELSE MAX_RETRIES
RtMaxDelay == IF rt.variant = "shared" THEN SHARED_MAX_DELAY_MS ELSE MAX_DELAY_MS

RtInit ==
    /\ TablesEmpty
    /\ cls = ClsIdle
    /\ \E v \in {"local", "shared"} : rt = [RtIdle EXCEPT !.variant = v]

RtFail ==
    /\ rt.retryCount < RtMaxRetries
    /\ \E j \in Jitters :
         LET next == IF rt.variant = "shared"
                     THEN sharedCalculateNextRetryTime(rt.retryCount, j, rt.t)
                     ELSE calculateNextRetryTime(rt.retryCount, rt.t)
         IN rt' = [rt EXCEPT !.retryCount = @ + 1,
                             !.delay = Some(next - rt.t),
                             !.nextRetryTime = Some(next)]
    /\ UNCHANGED <<mainVars, cls>>

RtTick ==
    /\ rt.t < MaxRetryTicks
    /\ rt' = [rt EXCEPT !.t = @ + 1]
    /\ UNCHANGED <<mainVars, cls>>

RtNext == RtFail \/ RtTick

SpecRetry == RtInit /\ [][RtNext]_vars

-----------------------------------------------------------------------------
(* Tables *)

Put(table, k, row) == [x \in DOMAIN table \cup {k} |-> IF x = k THEN row ELSE table[x]]
Drop(table, k) == [x \in DOMAIN table \ {k} |-> table[x]]

\* token_hotness: INSERT without the UNIQUE constraint on token_mint
InsertTokenHotness_NoUnique(table, row) ==
    [error |-> FALSE, table |-> Append(table, row)]

\* token_hotness: INSERT, token_mint TEXT UNIQUE NOT NULL
InsertTokenHotness(table, row) ==
    IF \E i \in DOMAIN table : table[i].token_mint = row.token_mint
    THEN [error |-> TRUE, table |-> table]
    ELSE [error |-> FALSE, table |-> Append(table, row)]

HotRows(mint) == {i \in DOMAIN token_hotness : token_hotness[i].token_mint = mint}

\* send-message: INSERT into the queue table, visible at once.  message_id is
\* the queue name and the millisecond of the call, and is UNIQUE: the insert
\* of a second message of the same instant is rejected.  (The SERIAL id is
\* drawn before the constraint is checked, so the caller's nextId advances
\* either way.)
SendMessage(table, id, message, t) ==
    IF \E k \in DOMAIN table : table[k].message_id = t
    THEN table
    ELSE Put(table, id, [message_id |-> t, message |-> message,
                         visible_after |-> Some(t), created_at |-> t,
                         status |-> "pending", updated_at |-> Null])

\* update-message: only `message` is taken from the request body
UpdateMessage(table, id, message, visible_after) ==
    IF id \in DOMAIN table
    THEN [table EXCEPT ![id].message = message, ![id].updated_at = Some(now)]
    ELSE table

\* delete-message that removes nothing
DeleteMessage_Keep(table, id) == table

\* delete-message
DeleteMessage(table, id) == Drop(table, id)

\* payload.retryCount || 0
RetryCountOf(message) == IF message.retryCount = Null THEN 0 ELSE message.retryCount[1]

-----------------------------------------------------------------------------
(* Errors are the words of their message *)

ErrRateLimited == <<"Rate", "limited">>
ErrFetchFailed == <<"Failed", "to", "fetch", "token", "data">>
ErrInvalidMarketCap == <<"Token", "has", "non-positive", "market", "cap">>
ErrNegativeLiquidity == <<"Token", "has", "negative", "liquidity">>
ErrMarketCapNotNumber == <<"Token", "has", "invalid", "market", "cap">>
ErrLiquidityNotNumber == <<"Token", "has", "invalid", "liquidity">>
ErrDatabase == <<"Database", "error">>

\* String.prototype.includes for a phrase of one or two words
Includes(msg, phrase) ==
    \E i \in DOMAIN msg :
        /\ i + Len(phrase) - 1 <= Len(msg)
        /\ \A j \in DOMAIN phrase : msg[i + j - 1] = phrase[j]

\* only the rate limit is retried
shouldRetry_RateLimitOnly(err) == err = ErrRateLimited

shouldRetry(err) ==
    \/ err = ErrRateLimited
    \/ Includes(err, <<"timeout">>)
    \/ Includes(err, <<"network", "error">>)
    \/ Includes(err, <<"fetch">>)

-----------------------------------------------------------------------------
(* process-stats/index.ts: validateTokenStats *)

\* a volume figure that is taken as it comes while it is a number
VolumeOrZero_KeepNegative(v, type) ==
    IF v = Null THEN 0 ELSE IF type # "number" THEN 0 ELSE v[1]

\* a volume figure of the answer: absent, not a number or negative gives 0
VolumeOrZero(v, type) ==
    IF v = Null THEN 0 ELSE IF type # "number" THEN 0 ELSE IF v[1] < 0 THEN 0 ELSE v[1]

\* validateTokenStats that accepts any liquidity figure
validateTokenStats_NoLiquidityCheck(stats) ==
    LET mcErr  == stats.marketCapUsdType # "number" \/ stats.marketCapUsd <= 0
        buy    == VolumeOrZero(stats.buyVolume, stats.buyVolumeType)
        sell   == VolumeOrZero(stats.sellVolume, stats.sellVolumeType)
    IN [isValid |-> ~mcErr,
        firstError |-> IF stats.marketCapUsdType # "number" THEN ErrMarketCapNotNumber
                       ELSE ErrInvalidMarketCap,
        processedData |-> [marketCapUsd |-> IF mcErr THEN 0 ELSE stats.marketCapUsd,
                           liquidityUsd |-> stats.liquidityUsd,
                           buyVolume |-> buy,
                           sellVolume |-> sell,
                           netVolume |-> buy - sell]]

\* A figure of the answer is its typeof and, for a number, its value.  (A
\* number parsed from JSON is never NaN.)
validateTokenStats(stats) ==
    LET mcErr  == stats.marketCapUsdType # "number" \/ stats.marketCapUsd <= 0
        liqErr == stats.liquidityUsdType # "number" \/ stats.liquidityUsd < 0
        buy    == VolumeOrZero(stats.buyVolume, stats.buyVolumeType)
        sell   == VolumeOrZero(stats.sellVolume, stats.sellVolumeType)
    IN [isValid |-> ~mcErr /\ ~liqErr,
        firstError |-> IF stats.marketCapUsdType # "number" THEN ErrMarketCapNotNumber
                       ELSE IF mcErr THEN ErrInvalidMarketCap
                       ELSE IF stats.liquidityUsdType # "number" THEN ErrLiquidityNotNumber
                       ELSE ErrNegativeLiquidity,
        processedData |-> [marketCapUsd |-> IF mcErr THEN 0 ELSE stats.marketCapUsd,
                           liquidityUsd |-> IF liqErr THEN 0 ELSE stats.liquidityUsd,
                           buyVolume |-> buy,
                           sellVolume |-> sell,
                           netVolume |-> buy - sell]]

-----------------------------------------------------------------------------
(* External inputs *)

\* /search candidates: one that passes the liquidity filter, one that does not
Candidates ==
    {[marketCapUsd |-> 100000, liquidityUsd |-> 3000],
     [marketCapUsd |-> 100000, liquidityUsd |-> 2000]}

\* /tokens/{mint} and /stats/{mint} answers, as the TokenStats object built
\* from them
TokenStats(marketCapUsd, liquidityUsd, buyVolume, sellVolume) ==
    [marketCapUsd |-> marketCapUsd, marketCapUsdType |-> "number",
     liquidityUsd |-> liquidityUsd, liquidityUsdType |-> "number",
     buyVolume |-> buyVolume,
     buyVolumeType |-> IF buyVolume = Null THEN "undefined" ELSE "number",
     sellVolume |-> sellVolume,
     sellVolumeType |-> IF sellVolume = Null THEN "undefined" ELSE "number"]

\* a valuation above the hotness threshold with buys, one below it with
\* sells, and one without a pool
StatsAnswers ==
    {TokenStats(700000, 21000, Some(35000), Null),
     TokenStats(400000, 12000, Some(0), Some(10000)),
     TokenStats(0, 0, Null, Null)}

\* a pool without a market cap figure, one whose liquidity is a string, and
\* pools with a negative market cap or a negative liquidity
MalformedAnswers ==
    {[TokenStats(0, 21000, Null, Null) EXCEPT !.marketCapUsdType = "undefined"],
     [TokenStats(700000, 0, Null, Null) EXCEPT !.liquidityUsdType = "string"],
     TokenStats(0 - 700000, 21000, Null, Null),
     TokenStats(700000, 0 - 21000, Null, Null)}

\* a valuation that is exactly the hotness threshold, with the figures that
\* meet the four criteria for a start market cap of 100000
ThresholdAnswers ==
    {TokenStats(HOTNESS_CHECK_THRESHOLD, 18000, Some(30000), Null)}

AllAnswers == StatsAnswers \cup MalformedAnswers \cup ThresholdAnswers

\* answers whose market cap and liquidity are valid and whose volumes are
\* not: buys without sells, volumes that are strings, and negative volumes
VolumeAnswers ==
    {TokenStats(400000, 12000, Some(8000), Null),
     [TokenStats(400000, 12000, Some(10000), Some(5000)) EXCEPT !.buyVolumeType = "string",
                                                                !.sellVolumeType = "string"],
     TokenStats(400000, 12000, Some(0 - 10000), Some(3000)),
     TokenStats(400000, 12000, Some(6000), Some(0 - 5000))}

-----------------------------------------------------------------------------
(* The clock *)

\* one monitoring window, and a millisecond, pass
TickMs == MONITOR_WINDOW_MS + 1

Tick ==
    /\ now < MaxTick * TickMs
    /\ now' = now + TickMs
    /\ UNCHANGED <<tokens, token_hotness, historical_records, queue, dlq, nextId,
                   apiCalls, ps, ae, rm, cls, rt, dr, pr, ing, qt>>

-----------------------------------------------------------------------------
(* discover/index.ts: one candidate of the /search answer *)

NewMessage(mint) ==
    [mint |-> mint, retryCount |-> Some(0), lastRetry |-> Null, nextRetryTime |-> Null,
     error |-> <<>>, failedAt |-> Null, retryHistory |-> <<>>]

\* the admission filter that admits every candidate
RejectsLiquidity_Never(token) == FALSE

\* token.liquidityUsd < 0.03 * token.marketCapUsd
RejectsLiquidity(token) == 100 * token.liquidityUsd < 3 * token.marketCapUsd

\* the existing-token check: a row of tokens with this mint, active or not
ExistingToken(mint) == mint \in DOMAIN tokens

Discover(mint, token) ==
    IF ExistingToken(mint)
    THEN \* already in tokens, active or archived: skipped
         /\ dr' = DrIdle
         /\ UNCHANGED <<now, tokens, token_hotness, historical_records, queue, dlq,
                        nextId, apiCalls, ps, ae, rm, cls, rt, pr, ing, qt>>
    ELSE IF RejectsLiquidity(token)
    THEN /\ dr' = [validTokens |-> {},
                   rejectedTokens |-> {[mint |-> mint,
                                        reason |-> "Insufficient liquidity ratio"]}]
         /\ UNCHANGED <<now, tokens, token_hotness, historical_records, queue, dlq,
                        nextId, apiCalls, ps, ae, rm, cls, rt, pr, ing, qt>>
    ELSE /\ tokens' = Put(tokens, mint,
                     [start_market_cap |-> token.marketCapUsd,
                      liquidity_usd |-> token.liquidityUsd,
                      market_cap_usd |-> token.marketCapUsd,
                      cumulative_buy_volume |-> 0,
                      cumulative_net_volume |-> 0,
                      deadline |-> now + MONITOR_WINDOW_MS,
                      is_active |-> TRUE,
                      is_hot |-> FALSE])
         /\ historical_records' = Append(historical_records,
                     [token_mint |-> mint,
                      market_cap_usd |-> token.marketCapUsd,
                      liquidity_usd |-> token.liquidityUsd,
                      cumulative_buy_volume |-> 0,
                      cumulative_net_volume |-> 0])
         /\ queue' = SendMessage(queue, nextId, NewMessage(mint), now)
         /\ nextId' = nextId + 1
         /\ dr' = [validTokens |-> {mint}, rejectedTokens |-> {}]
         /\ UNCHANGED <<now, token_hotness, dlq, apiCalls, ps, ae, rm, cls, rt, pr, ing, qt>>

\* a discover run while fewer than `limit` messages have been enqueued
DiscoverBounded(limit, mint, token) ==
    /\ nextId <= limit
    /\ Discover(mint, token)

-----------------------------------------------------------------------------
(* archive-expired/index.ts *)

AESelect ==
    /\ ae.pc = "idle"
    /\ LET expiredTokens == {m \in DOMAIN tokens : /\ tokens[m].deadline < now
                                                   /\ tokens[m].is_active
                                                   /\ ~tokens[m].is_hot}
       IN /\ expiredTokens # {}
          /\ ae' = [pc |-> "archive", expiredTokens |-> expiredTokens]
    /\ UNCHANGED <<now, tokens, token_hotness, historical_records, queue, dlq, nextId,
                   apiCalls, ps, rm, cls, rt, dr, pr, ing, qt>>

\* a sweep that walks its list and archives nothing
AEArchive_Skip ==
    /\ ae.pc = "archive"
    /\ \E m \in ae.expiredTokens :
         ae' = IF ae.expiredTokens = {m}
               THEN AeIdle
               ELSE [ae EXCEPT !.expiredTokens = @ \ {m}]
    /\ UNCHANGED <<now, tokens, token_hotness, historical_records, queue, dlq, nextId,
                   apiCalls, ps, rm, cls, rt, dr, pr, ing, qt>>

\* the table-move variant of the sweep: the row leaves tokens
AEArchive_Move ==
    /\ ae.pc = "archive"
    /\ \E m \in ae.expiredTokens :
         /\ tokens' = IF m \in DOMAIN tokens THEN Drop(tokens, m) ELSE tokens
         /\ ae' = IF ae.expiredTokens = {m}
                  THEN AeIdle
                  ELSE [ae EXCEPT !.expiredTokens = @ \ {m}]
    /\ UNCHANGED <<now, token_hotness, historical_records, queue, dlq, nextId,
                   apiCalls, ps, rm, cls, rt, dr, pr, ing, qt>>

AEArchive ==
    /\ ae.pc = "archive"
    /\ \E m \in ae.expiredTokens :
         /\ tokens' = IF m \in DOMAIN tokens
                      THEN [tokens EXCEPT ![m].is_active = FALSE]
                      ELSE tokens
         /\ ae' = IF ae.expiredTokens = {m}
                  THEN AeIdle
                  ELSE [ae EXCEPT !.expiredTokens = @ \ {m}]
    /\ UNCHANGED <<now, token_hotness, historical_records, queue, dlq, nextId,
                   apiCalls, ps, rm, cls, rt, dr, pr, ing, qt>>

-----------------------------------------------------------------------------
(* read-messages/index.ts *)

\* the sequences that list the rows of ids by created_at ascending
ByCreatedAt(ids) ==
    {s \in [1 .. Cardinality(ids) -> ids] :
        /\ \A i, j \in DOMAIN s : i # j => s[i] # s[j]
        /\ \A i, j \in DOMAIN s : i < j => queue[s[i]].created_at <= queue[s[j]].created_at}

Limit(s, n) == SubSeq(s, 1, Min(Len(s), n))

Range(s) == {s[i] : i \in DOMAIN s}

RMSelect(c) ==
    /\ rm[c].pc = "idle"
    /\ LET pending == {id \in DOMAIN queue : queue[id].status = "pending"}
       IN /\ pending # {}
          /\ \E s \in ByCreatedAt(pending) :
               rm' = [rm EXCEPT ![c] = [pc |-> "selected",
                                        messages |-> Range(Limit(s, BATCH_LIMIT)),
                                        returned |-> {}, at |-> 0]]
    /\ UNCHANGED <<now, tokens, token_hotness, historical_records, queue, dlq, nextId,
                   apiCalls, ps, ae, cls, rt, dr, pr, ing, qt>>

RMMark(c) ==
    /\ rm[c].pc = "selected"
    /\ queue' = [id \in DOMAIN queue |->
                   IF id \in rm[c].messages
                   THEN [queue[id] EXCEPT !.status = "processing",
                                          !.visible_after =
                                              Some(now + VISIBILITY_TIMEOUT_S * 1000),
                                          !.updated_at = Some(now)]
                   ELSE queue[id]]
    /\ rm' = [rm EXCEPT ![c] = [pc |-> "idle", messages |-> {},
                                returned |-> rm[c].messages, at |-> now]]
    /\ UNCHANGED <<now, tokens, token_hotness, historical_records, dlq, nextId,
                   apiCalls, ps, ae, cls, rt, dr, pr, ing, qt>>

\* cron job reset_stuck_messages: rows left in 'processing' for more than an
\* hour go back to 'pending', with visible_after NULL
ResetStuck ==
    LET stuck == {id \in DOMAIN queue :
                     /\ queue[id].status = "processing"
                     /\ queue[id].updated_at # Null
                     /\ queue[id].updated_at[1] < now - RESET_STUCK_AFTER_MS}
    IN /\ stuck # {}
       /\ queue' = [id \in DOMAIN queue |->
                      IF id \in stuck
                      THEN [queue[id] EXCEPT !.status = "pending",
                                             !.visible_after = Null,
                                             !.updated_at = Some(now)]
                      ELSE queue[id]]
       /\ UNCHANGED <<now, tokens, token_hotness, historical_records, dlq, nextId,
                      apiCalls, ps, ae, rm, cls, rt, dr, pr, ing, qt>>

-----------------------------------------------------------------------------
(* process-stats/index.ts *)

Current(w) == ps[w].batch[ps[w].i]

\* an iteration that ends the invocation instead of going on with the batch
Advance_EndCycle(r) ==
    [r EXCEPT !.pc = "respond", !.stats = Null, !.hotToken = Null, !.token = Null]

\* the end of one iteration of `for (const message of messages)`
Advance(r) ==
    IF r.i < Len(r.batch)
    THEN [r EXCEPT !.pc = "fetch", !.i = @ + 1, !.stats = Null, !.hotToken = Null,
                   !.token = Null]
    ELSE [r EXCEPT !.pc = "respond", !.stats = Null, !.hotToken = Null, !.token = Null]

\* the queue read that opens an invocation
PSSelect(w) ==
    /\ ps[w].pc = "idle"
    /\ LET visible == {id \in DOMAIN queue : /\ queue[id].visible_after # Null
                                             /\ queue[id].visible_after[1] <= now}
       IN /\ visible # {}
          /\ \E s \in ByCreatedAt(visible) :
               ps' = [ps EXCEPT ![w] =
                        [PsIdle EXCEPT !.pc = "fetch", !.i = 1,
                                       !.batch = [k \in DOMAIN Limit(s, BATCH_LIMIT) |->
                                                    [id |-> s[k], message |-> queue[s[k]].message]]]]
    /\ UNCHANGED <<now, tokens, token_hotness, historical_records, queue, dlq, nextId,
                   apiCalls, ae, rm, cls, rt, dr, pr, ing, qt>>

\* catch (error): retry, dead-letter or leave the message
Catch(w, err) ==
    LET message    == Current(w).message
        messageId  == Current(w).id
        retryCount == RetryCountOf(message)
        failed     == [ps[w] EXCEPT !.failureCount = @ + 1]
        nextRetryTime == calculateNextRetryTime(retryCount, now)
    IN IF shouldRetry(err) /\ retryCount < MAX_RETRIES
       THEN /\ queue' = UpdateMessage(queue, messageId,
                            [message EXCEPT !.retryCount = Some(retryCount + 1),
                                            !.lastRetry = Some(now),
                                            !.nextRetryTime = Some(nextRetryTime),
                                            !.error = err],
                            Some(nextRetryTime))
            /\ dlq' = dlq
            /\ ps' = [ps EXCEPT ![w] = Advance(failed)]
       ELSE IF retryCount >= MAX_RETRIES
       THEN /\ dlq' = Append(dlq,
                        [ofMessage |-> messageId,
                         message |-> [message EXCEPT
                             !.error = err,
                             !.failedAt = Some(now),
                             !.retryHistory = Append(message.retryHistory,
                                 [retryCount |-> retryCount, error |-> err, time |-> now])]])
            /\ queue' = queue
            /\ ps' = [ps EXCEPT ![w] = [failed EXCEPT !.pc = "dlqDelete"]]
       ELSE /\ queue' = queue
            /\ dlq' = dlq
            /\ ps' = [ps EXCEPT ![w] = Advance(failed)]

\* the two API requests of one message, answered from `answers`, then the
\* token_hotness lookup
PSFetchOf(w, answers) ==
    /\ ps[w].pc = "fetch"
    /\ apiCalls < MaxApiCalls
    /\ apiCalls' = apiCalls + 1
    /\ \/ Catch(w, ErrRateLimited)
       \/ Catch(w, ErrFetchFailed)
       \/ \* risk.rugged, or risk.score above the threshold
          /\ queue' = DeleteMessage(queue, Current(w).id)
          /\ dlq' = dlq
          /\ ps' = [ps EXCEPT ![w] = Advance(ps[w])]
       \/ \E stats \in answers :
            LET hot == HotRows(Current(w).message.mint)
                r   == [ps[w] EXCEPT !.stats = Some(stats)]
            IN IF Cardinality(hot) > 1
               THEN Catch(w, ErrDatabase)
               ELSE /\ ps' = [ps EXCEPT ![w] =
                                IF hot = {}
                                THEN [r EXCEPT !.pc = "loadToken"]
                                ELSE [r EXCEPT !.pc = "updateHot",
                                               !.hotToken =
                                                   Some(token_hotness[CHOOSE i \in hot : TRUE])]]
                    /\ UNCHANGED <<queue, dlq>>
    /\ UNCHANGED <<now, tokens, token_hotness, historical_records, nextId, ae, rm, cls, rt, dr, pr, ing, qt>>

PSFetch(w) == PSFetchOf(w, StatsAnswers)

PSFetchAny(w) == PSFetchOf(w, AllAnswers)

PSFetchVolumes(w) == PSFetchOf(w, StatsAnswers \cup VolumeAnswers)

\* the already-hot branch
PSUpdateHot(w) ==
    /\ ps[w].pc = "updateHot"
    /\ LET mint       == Current(w).message.mint
           hotToken   == ps[w].hotToken[1]
           validation == validateTokenStats(ps[w].stats[1])
           data       == validation.processedData
       IN IF ~validation.isValid
          THEN /\ Catch(w, validation.firstError)
               /\ UNCHANGED <<token_hotness, historical_records>>
          ELSE /\ token_hotness' =
                     [i \in DOMAIN token_hotness |->
                        IF token_hotness[i].token_mint = mint
                        THEN [token_hotness[i] EXCEPT
                                !.market_cap_usd = data.marketCapUsd,
                                !.liquidity_usd = data.liquidityUsd,
                                !.cumulative_buy_volume =
                                    hotToken.cumulative_buy_volume + data.buyVolume,
                                !.cumulative_net_volume =
                                    hotToken.cumulative_net_volume + data.netVolume]
                        ELSE token_hotness[i]]
               /\ historical_records' = Append(historical_records,
                     [token_mint |-> mint,
                      market_cap_usd |-> data.marketCapUsd,
                      liquidity_usd |-> data.liquidityUsd,
                      cumulative_buy_volume |-> hotToken.cumulative_buy_volume + data.buyVolume,
                      cumulative_net_volume |-> hotToken.cumulative_net_volume + data.netVolume])
               /\ queue' = DeleteMessage(queue, Current(w).id)
               /\ dlq' = dlq
               /\ ps' = [ps EXCEPT ![w] = Advance([ps[w] EXCEPT !.successCount = @ + 1])]
    /\ UNCHANGED <<now, tokens, nextId, apiCalls, ae, rm, cls, rt, dr, pr, ing, qt>>

\* the tokens lookup; a missing row ends the message
PSLoadToken(w) ==
    /\ ps[w].pc = "loadToken"
    /\ LET mint == Current(w).message.mint
       IN IF mint \in DOMAIN tokens
          THEN /\ ps' = [ps EXCEPT ![w] = [@ EXCEPT !.pc = "process",
                                                    !.token = Some(tokens[mint])]]
               /\ queue' = queue
          ELSE /\ queue' = DeleteMessage(queue, Current(w).id)
               /\ ps' = [ps EXCEPT ![w] = Advance(ps[w])]
    /\ UNCHANGED <<now, tokens, token_hotness, historical_records, dlq, nextId,
                   apiCalls, ae, rm, cls, rt, dr, pr, ing, qt>>

\* tokens: UPDATE ... WHERE mint = ...
UpdateToken(table, mint, updates) ==
    IF mint \in DOMAIN table
    THEN [table EXCEPT ![mint] =
            [@ EXCEPT !.market_cap_usd = updates.market_cap_usd,
                      !.liquidity_usd = updates.liquidity_usd,
                      !.cumulative_buy_volume = updates.cumulative_buy_volume,
                      !.cumulative_net_volume = updates.cumulative_net_volume]]
    ELSE table

\* update the tokens row, append the history record, delete the message
RegularUpdate(w, mint, updates) ==
    /\ tokens' = UpdateToken(tokens, mint, updates)
    /\ historical_records' = Append(historical_records,
          [token_mint |-> mint,
           market_cap_usd |-> updates.market_cap_usd,
           liquidity_usd |-> updates.liquidity_usd,
           cumulative_buy_volume |-> updates.cumulative_buy_volume,
           cumulative_net_volume |-> updates.cumulative_net_volume])
    /\ queue' = DeleteMessage(queue, Current(w).id)
    /\ ps' = [ps EXCEPT ![w] = Advance([ps[w] EXCEPT !.successCount = @ + 1])]

\* validation, the hotness check and the write that follows it
PSProcess(w) ==
    /\ ps[w].pc = "process"
    /\ LET mint       == Current(w).message.mint
           token      == ps[w].token[1]
           stats      == ps[w].stats[1]
           validation == validateTokenStats(stats)
           data       == validation.processedData
           updatedBuyVolume == token.cumulative_buy_volume + data.buyVolume
           updatedNetVolume == token.cumulative_net_volume + data.netVolume
           updates    == [market_cap_usd |-> data.marketCapUsd,
                          liquidity_usd |-> data.liquidityUsd,
                          cumulative_buy_volume |-> updatedBuyVolume,
                          cumulative_net_volume |-> updatedNetVolume]
           evaluate   == stats.marketCapUsd >= HOTNESS_CHECK_THRESHOLD
           badStart   == token.start_market_cap <= 0
           hot        == /\ evaluate
                         /\ ~badStart
                         /\ isHot(token.start_market_cap, stats.marketCapUsd,
                                  updatedBuyVolume, updatedNetVolume, stats.liquidityUsd)
           inserted   == InsertTokenHotness(token_hotness,
                             [token_mint |-> mint,
                              market_cap_usd |-> stats.marketCapUsd,
                              start_market_cap |-> token.start_market_cap,
                              liquidity_usd |-> stats.liquidityUsd,
                              cumulative_buy_volume |-> updatedBuyVolume,
                              cumulative_net_volume |-> updatedNetVolume])
       IN IF ~validation.isValid
          THEN /\ Catch(w, validation.firstError)
               /\ UNCHANGED <<tokens, token_hotness, historical_records>>
          ELSE IF evaluate /\ badStart
          THEN \* the row is updated and the message is left in the queue
               /\ tokens' = UpdateToken(tokens, mint, updates)
               /\ ps' = [ps EXCEPT ![w] = Advance([ps[w] EXCEPT !.successCount = @ + 1])]
               /\ UNCHANGED <<token_hotness, historical_records, queue, dlq>>
          ELSE IF hot
          THEN \* on hotnessError the regular update follows
               /\ token_hotness' = inserted.table
               /\ ps' = [ps EXCEPT ![w] =
                           [@ EXCEPT !.pc = IF inserted.error THEN "update" ELSE "promote"]]
               /\ UNCHANGED <<tokens, historical_records, queue, dlq>>
          ELSE /\ RegularUpdate(w, mint, updates)
               /\ UNCHANGED <<token_hotness, dlq>>
    /\ UNCHANGED <<now, nextId, apiCalls, ae, rm, cls, rt, dr, pr, ing, qt>>

\* the regular update that follows a failed token_hotness insert
PSUpdate(w) ==
    /\ ps[w].pc = "update"
    /\ LET token == ps[w].token[1]
           data  == validateTokenStats(ps[w].stats[1]).processedData
       IN RegularUpdate(w, Current(w).message.mint,
              [market_cap_usd |-> data.marketCapUsd,
               liquidity_usd |-> data.liquidityUsd,
               cumulative_buy_volume |-> token.cumulative_buy_volume + data.buyVolume,
               cumulative_net_volume |-> token.cumulative_net_volume + data.netVolume])
    /\ UNCHANGED <<now, token_hotness, dlq, nextId, apiCalls, ae, rm, cls, rt, dr, pr, ing, qt>>

\* after the token_hotness insert: delete the tokens row, then the message
PSPromote(w) ==
    /\ ps[w].pc = "promote"
    /\ \E deleteTokenError \in BOOLEAN :
         tokens' = IF deleteTokenError
                   THEN tokens
                   ELSE Drop(tokens, Current(w).message.mint)
    /\ queue' = DeleteMessage(queue, Current(w).id)
    /\ ps' = [ps EXCEPT ![w] = Advance([ps[w] EXCEPT !.successCount = @ + 1])]
    /\ UNCHANGED <<now, token_hotness, historical_records, dlq, nextId, apiCalls,
                   ae, rm, cls, rt, dr, pr, ing, qt>>

\* after the dead-letter insert: delete the original
PSDlqDelete(w) ==
    /\ ps[w].pc = "dlqDelete"
    /\ queue' = DeleteMessage(queue, Current(w).id)
    /\ ps' = [ps EXCEPT ![w] = Advance(ps[w])]
    /\ UNCHANGED <<now, tokens, token_hotness, historical_records, dlq, nextId,
                   apiCalls, ae, rm, cls, rt, dr, pr, ing, qt>>

\* the answer to a queue read that finds no message
PSNoMessages(w) ==
    /\ ps[w].pc = "idle"
    /\ \A id \in DOMAIN queue : \/ queue[id].visible_after = Null
                                 \/ queue[id].visible_after[1] > now
    /\ pr' = [status |-> 200, summary |-> Null]
    /\ UNCHANGED <<now, tokens, token_hotness, historical_records, queue, dlq, nextId,
                   apiCalls, ps, ae, rm, cls, rt, dr, ing, qt>>

\* the response with the summary of the invocation's counters
SummaryResponse(r) ==
    [status |-> 200,
     summary |-> Some([total |-> Len(r.batch), success |-> r.successCount,
                       failure |-> r.failureCount])]

\* the response of the runtime to a handler that threw
UncaughtResponse == [status |-> 500, summary |-> Null]

\* The end of an invocation.  The statements that build the summary follow
\* the try/catch statement, and messages, successCount, failureCount and
\* currentTime are declared by const and let inside the try block: they are
\* not in scope there, the first of them to be evaluated (messages) throws a
\* ReferenceError outside any try, and the runtime answers for the handler.
PSRespond(w) ==
    /\ ps[w].pc = "respond"
    /\ ps' = [ps EXCEPT ![w] = PsIdle]
    /\ pr' = UncaughtResponse
    /\ UNCHANGED <<now, tokens, token_hotness, historical_records, queue, dlq, nextId,
                   apiCalls, ae, rm, cls, rt, dr, ing, qt>>

-----------------------------------------------------------------------------
(* Specification Spec: the handlers running concurrently on one database *)

Init ==
    /\ TablesEmpty
    /\ cls = ClsIdle
    /\ rt = RtIdle

Next ==
    \/ Tick
    \/ \E mint \in Mints, token \in Candidates : DiscoverBounded(MaxMsgs, mint, token)
    \/ AESelect
    \/ AEArchive
    \/ \E w \in Workers : PSSelect(w)
    \/ \E w \in Workers : PSFetch(w)
    \/ \E w \in Workers : PSUpdateHot(w)
    \/ \E w \in Workers : PSLoadToken(w)
    \/ \E w \in Workers : PSProcess(w)
    \/ \E w \in Workers : PSUpdate(w)
    \/ \E w \in Workers : PSPromote(w)
    \/ \E w \in Workers : PSDlqDelete(w)
    \/ \E w \in Workers : PSRespond(w)

Spec == Init /\ [][Next]_vars

-----------------------------------------------------------------------------
(* Specification SpecDequeue: callers of read-messages on one queue, with   *)
(* send-message filling it and delete-message acknowledging a message.      *)

DqEnqueue(mint) ==
    /\ nextId <= MaxEnqueue
    /\ queue' = SendMessage(queue, nextId, NewMessage(mint), now)
    /\ nextId' = nextId + 1
    /\ UNCHANGED <<now, tokens, token_hotness, historical_records, dlq, apiCalls,
                   ps, ae, rm, cls, rt, dr, pr, ing, qt>>

DqDelete(c) ==
    /\ rm[c].pc = "idle"
    /\ \E id \in rm[c].returned :
         /\ queue' = DeleteMessage(queue, id)
         /\ rm' = [rm EXCEPT ![c].returned = @ \ {id}]
    /\ UNCHANGED <<now, tokens, token_hotness, historical_records, dlq, nextId,
                   apiCalls, ps, ae, cls, rt, dr, pr, ing, qt>>

DqNext ==
    \/ Tick
    \/ \E mint \in Mints : DqEnqueue(mint)
    \/ \E c \in Callers : RMSelect(c)
    \/ \E c \in Callers : RMMark(c)
    \/ \E c \in Callers : DqDelete(c)
    \/ ResetStuck

SpecDequeue == Init /\ [][DqNext]_vars

-----------------------------------------------------------------------------
(* Specification SpecIngest: repeated discover runs over the same mint,     *)
(* with one process-stats worker and the deadline sweep in between.  A      *)
(* single worker never finds its promotion insert rejected, so the step     *)
(* after a rejected insert (PSUpdate) is not part of this specification.    *)

IngNext ==
    \/ Tick
    \/ \E mint \in Mints, token \in Candidates : DiscoverBounded(MaxIngest, mint, token)
    \/ AESelect
    \/ AEArchive
    \/ PSSelect("w1")
    \/ PSFetch("w1")
    \/ PSUpdateHot("w1")
    \/ PSLoadToken("w1")
    \/ PSProcess("w1")
    \/ PSPromote("w1")
    \/ PSDlqDelete("w1")
    \/ PSRespond("w1")

SpecIngest == Init /\ [][IngNext]_vars

\* The same steps, with the deadline sweep run again and again (it is
\* scheduled every hour) and every run carried to its end.
SpecSweep == Init /\ [][IngNext]_vars /\ WF_vars(AESelect) /\ WF_vars(AEArchive)

-----------------------------------------------------------------------------
(* Specification SpecBatch: one process-stats worker over a queue of up to  *)
(* MaxEnqueue messages, enqueued by discover or directly by send-message    *)
(* (as the queue-tokens sweep does), so that a batch holds several          *)
(* messages.  The clock moves between two calls of send-message, which     *)
(* otherwise collide on message_id.  As in SpecIngest, the single worker    *)
(* never reaches PSUpdate.                                                  *)

BatchNext ==
    \/ Tick
    \/ \E mint \in Mints, token \in Candidates : DiscoverBounded(MaxEnqueue, mint, token)
    \/ \E mint \in Mints : DqEnqueue(mint)
    \/ PSSelect("w1")
    \/ PSFetch("w1")
    \/ PSUpdateHot("w1")
    \/ PSLoadToken("w1")
    \/ PSProcess("w1")
    \/ PSPromote("w1")
    \/ PSDlqDelete("w1")
    \/ PSRespond("w1")
    \/ PSNoMessages("w1")

SpecBatch == Init /\ [][BatchNext]_vars

-----------------------------------------------------------------------------
(* Specification SpecReconcile: SpecBatch with every kind of answer of the  *)
(* API: valid, without a pool, malformed, and exactly at the hotness        *)
(* threshold.                                                               *)

RecNext ==
    \/ Tick
    \/ \E mint \in Mints, token \in Candidates : DiscoverBounded(MaxEnqueue, mint, token)
    \/ \E mint \in Mints : DqEnqueue(mint)
    \/ PSSelect("w1")
    \/ PSFetchAny("w1")
    \/ PSUpdateHot("w1")
    \/ PSLoadToken("w1")
    \/ PSProcess("w1")
    \/ PSPromote("w1")
    \/ PSDlqDelete("w1")
    \/ PSRespond("w1")
    \/ PSNoMessages("w1")

SpecReconcile == Init /\ [][RecNext]_vars

-----------------------------------------------------------------------------
(* Specification SpecArchive: the deadline sweep over the tokens of two     *)
(* mints, discovered before or after the clock moves, so that a run finds   *)
(* expired tokens next to tokens that are not, with one process-stats       *)
(* worker updating their figures in between.                                *)

SweepMints == {"m1", "m2"}

ArcNext ==
    \/ Tick
    \/ \E mint \in SweepMints, token \in Candidates : DiscoverBounded(MaxEnqueue, mint, token)
    \/ AESelect
    \/ AEArchive
    \/ PSSelect("w1")
    \/ PSFetch("w1")
    \/ PSUpdateHot("w1")
    \/ PSLoadToken("w1")
    \/ PSProcess("w1")
    \/ PSPromote("w1")
    \/ PSDlqDelete("w1")
    \/ PSRespond("w1")

SpecArchive == Init /\ [][ArcNext]_vars

-----------------------------------------------------------------------------
(* discover/index.ts, one candidate step by step: the writes that precede   *)
(* the enqueue, then the loop that invokes send-message until it succeeds   *)
(* or MAX_QUEUE_RETRIES attempts have failed, waiting between attempts.     *)

\* while (!queueSuccess && queueRetries < MAX_QUEUE_RETRIES) that never gives up
QueueLoopContinues_NoLimit(queueSuccess, queueRetries) == ~queueSuccess

\* while (!queueSuccess && queueRetries < MAX_QUEUE_RETRIES)
QueueLoopContinues(queueSuccess, queueRetries) ==
    ~queueSuccess /\ queueRetries < MAX_QUEUE_RETRIES

\* Math.min(1000 * Math.pow(2, queueRetries), 8000)
QueueBackoffMs(queueRetries) ==
    Min(QUEUE_BACKOFF_BASE_MS * Pow2(queueRetries), QUEUE_BACKOFF_MAX_MS)

\* the existing-token check, the liquidity filter, and the inserts into
\* tokens and historical_records
IngStart(mint, token) ==
    /\ ing.pc = "idle"
    /\ nextId <= MaxEnqueue
    /\ IF ExistingToken(mint)
       THEN /\ dr' = DrIdle
            /\ UNCHANGED <<tokens, historical_records, ing>>
       ELSE IF RejectsLiquidity(token)
       THEN /\ dr' = [validTokens |-> {},
                      rejectedTokens |-> {[mint |-> mint,
                                           reason |-> "Insufficient liquidity ratio"]}]
            /\ UNCHANGED <<tokens, historical_records, ing>>
       ELSE /\ tokens' = Put(tokens, mint,
                        [start_market_cap |-> token.marketCapUsd,
                         liquidity_usd |-> token.liquidityUsd,
                         market_cap_usd |-> token.marketCapUsd,
                         cumulative_buy_volume |-> 0,
                         cumulative_net_volume |-> 0,
                         deadline |-> now + MONITOR_WINDOW_MS,
                         is_active |-> TRUE,
                         is_hot |-> FALSE])
            /\ historical_records' = Append(historical_records,
                        [token_mint |-> mint,
                         market_cap_usd |-> token.marketCapUsd,
                         liquidity_usd |-> token.liquidityUsd,
                         cumulative_buy_volume |-> 0,
                         cumulative_net_volume |-> 0])
            /\ ing' = [IngIdle EXCEPT !.pc = "enqueue", !.mint = mint]
            /\ dr' = DrIdle
    /\ UNCHANGED <<now, token_hotness, queue, dlq, nextId, apiCalls, ps, ae, rm,
                   cls, rt, pr, qt>>

\* One iteration of the loop.  The invocation fails when send-message cannot
\* be reached or when its insert is rejected; a failure counts a retry and,
\* if the loop goes on, the handler sleeps.  When the loop ends the token is
\* pushed to validTokens whether it was enqueued or not.
IngAttempt ==
    /\ ing.pc = "enqueue"
    /\ \E reached \in BOOLEAN :
         LET sent         == IF reached
                             THEN SendMessage(queue, nextId, NewMessage(ing.mint), now)
                             ELSE queue
             queueSuccess == sent # queue
             queueRetries == IF queueSuccess THEN ing.queueRetries
                                             ELSE ing.queueRetries + 1
         IN /\ queue' = sent
            /\ nextId' = IF reached THEN nextId + 1 ELSE nextId
            /\ IF QueueLoopContinues(queueSuccess, queueRetries)
               THEN /\ ing' = [ing EXCEPT !.pc = "backoff",
                                          !.queueRetries = queueRetries,
                                          !.backoffMs = QueueBackoffMs(queueRetries)]
                    /\ dr' = dr
               ELSE /\ ing' = [ing EXCEPT !.pc = "idle",
                                          !.queueRetries = queueRetries,
                                          !.queueSuccess = queueSuccess,
                                          !.backoffMs = 0]
                    /\ dr' = [validTokens |-> {ing.mint}, rejectedTokens |-> {}]
    /\ UNCHANGED <<now, tokens, token_hotness, historical_records, dlq, apiCalls,
                   ps, ae, rm, cls, rt, pr, qt>>

\* await new Promise(resolve => setTimeout(resolve, backoffMs))
IngBackoff ==
    /\ ing.pc = "backoff"
    /\ now' = now + ing.backoffMs
    /\ ing' = [ing EXCEPT !.pc = "enqueue"]
    /\ UNCHANGED <<tokens, token_hotness, historical_records, queue, dlq, nextId,
                   apiCalls, ps, ae, rm, cls, rt, dr, pr, qt>>

-----------------------------------------------------------------------------
(* queue-tokens: every mint of tokens and token_hotness that has no message *)
(* in the queue gets one.                                                   *)

\* the message of queue-tokens: mint, name, symbol and timestamp, and no
\* retry fields
SweepMessage(mint) == [NewMessage(mint) EXCEPT !.retryCount = Null]

\* the reads of tokens, token_hotness and the queue
QTSelect ==
    /\ qt.pc = "idle"
    /\ LET uniqueTokens == DOMAIN tokens \cup
                               {token_hotness[i].token_mint : i \in DOMAIN token_hotness}
           queuedMints  == {queue[id].message.mint : id \in DOMAIN queue}
       IN /\ uniqueTokens \ queuedMints # {}
          /\ qt' = [pc |-> "send", toQueue |-> uniqueTokens \ queuedMints]
    /\ UNCHANGED <<now, tokens, token_hotness, historical_records, queue, dlq, nextId,
                   apiCalls, ps, ae, rm, cls, rt, dr, pr, ing>>

\* a sweep that walks its list and sends nothing
QTSend_Skip ==
    /\ qt.pc = "send"
    /\ \E m \in qt.toQueue :
         qt' = IF qt.toQueue = {m} THEN QtIdle ELSE [qt EXCEPT !.toQueue = @ \ {m}]
    /\ UNCHANGED <<now, tokens, token_hotness, historical_records, queue, dlq, nextId,
                   apiCalls, ps, ae, rm, cls, rt, dr, pr, ing>>

\* one iteration of the enqueue loop
QTSend ==
    /\ qt.pc = "send"
    /\ \E m \in qt.toQueue :
         /\ queue' = SendMessage(queue, nextId, SweepMessage(m), now)
         /\ nextId' = nextId + 1
         /\ qt' = IF qt.toQueue = {m} THEN QtIdle ELSE [qt EXCEPT !.toQueue = @ \ {m}]
    /\ UNCHANGED <<now, tokens, token_hotness, historical_records, dlq,
                   apiCalls, ps, ae, rm, cls, rt, dr, pr, ing>>

-----------------------------------------------------------------------------
(* Specification SpecEnqueue: discover with its enqueue loop, the           *)
(* queue-tokens sweep and one process-stats worker.  The worker makes at    *)
(* most MaxSweepCalls requests; the sweep sends a message only for a mint   *)
(* that has none, so this also bounds the messages the sweep sends.         *)

\* the requests of one message while fewer than `limit` have been made
PSFetchBounded(limit, w) ==
    /\ apiCalls < limit
    /\ PSFetch(w)

EnqNext ==
    \/ \E mint \in Mints, token \in Candidates : IngStart(mint, token)
    \/ IngAttempt
    \/ IngBackoff
    \/ QTSelect
    \/ QTSend
    \/ PSSelect("w1")
    \/ PSFetchBounded(MaxSweepCalls, "w1")
    \/ PSUpdateHot("w1")
    \/ PSLoadToken("w1")
    \/ PSProcess("w1")
    \/ PSPromote("w1")
    \/ PSDlqDelete("w1")
    \/ PSRespond("w1")

SpecEnqueue == Init /\ [][EnqNext]_vars

\* The same steps, with the sweep run again and again (it is scheduled every
\* 30 minutes) and every run carried to its end.
SpecEnqueueFair == Init /\ [][EnqNext]_vars /\ WF_vars(QTSelect) /\ WF_vars(QTSend)

-----------------------------------------------------------------------------
(* process-stats/index.ts: errors of the store.  The text of the error is   *)
(* the store's; one text has none of the words shouldRetry looks for, the   *)
(* other is that of a request that could not be sent.                       *)

ErrDatabaseFetch == <<"Database", "error", "TypeError", "fetch", "failed">>

StoreErrors == {ErrDatabase, ErrDatabaseFetch}

\* the queue read fails: the handler answers 500 before any message is read
PSQueueError(w) ==
    /\ ps[w].pc = "idle"
    /\ pr' = [status |-> 500, summary |-> Null]
    /\ UNCHANGED <<now, tokens, token_hotness, historical_records, queue, dlq, nextId,
                   apiCalls, ps, ae, rm, cls, rt, dr, ing, qt>>

\* the statement of PSProcess that writes to tokens is reached: the answer
\* is valid and the token is not being promoted
TokenWriteDue(w) ==
    LET token == ps[w].token[1]
        stats == ps[w].stats[1]
        data  == validateTokenStats(stats).processedData
    IN /\ validateTokenStats(stats).isValid
       /\ ~(/\ stats.marketCapUsd >= HOTNESS_CHECK_THRESHOLD
            /\ token.start_market_cap > 0
            /\ isHot(token.start_market_cap, stats.marketCapUsd,
                     token.cumulative_buy_volume + data.buyVolume,
                     token.cumulative_net_volume + data.netVolume, stats.liquidityUsd))

\* A read or a write of the entity store fails while a message is processed:
\* the token_hotness lookup (after the API requests), the tokens lookup, the
\* token_hotness update or the tokens update.  The handler throws inside the
\* try of the message, and the catch block of the message takes over.
PSStoreError(w) ==
    /\ \/ ps[w].pc \in {"fetch", "loadToken"}
       \/ ps[w].pc = "updateHot" /\ validateTokenStats(ps[w].stats[1]).isValid
       \/ ps[w].pc = "process" /\ TokenWriteDue(w)
    /\ ps[w].pc = "fetch" => apiCalls < MaxApiCalls
    /\ apiCalls' = IF ps[w].pc = "fetch" THEN apiCalls + 1 ELSE apiCalls
    /\ \E err \in StoreErrors : Catch(w, err)
    /\ UNCHANGED <<now, tokens, token_hotness, historical_records, nextId, ae, rm,
                   cls, rt, dr, pr, ing, qt>>

-----------------------------------------------------------------------------
(* Specification SpecStorage: SpecBatch with a store that may fail at any   *)
(* read or write of an invocation.                                          *)

StoNext ==
    \/ Tick
    \/ \E mint \in Mints, token \in Candidates : DiscoverBounded(MaxEnqueue, mint, token)
    \/ \E mint \in Mints : DqEnqueue(mint)
    \/ PSSelect("w1")
    \/ PSFetch("w1")
    \/ PSUpdateHot("w1")
    \/ PSLoadToken("w1")
    \/ PSProcess("w1")
    \/ PSPromote("w1")
    \/ PSDlqDelete("w1")
    \/ PSRespond("w1")
    \/ PSNoMessages("w1")
    \/ PSQueueError("w1")
    \/ PSStoreError("w1")

SpecStorage == Init /\ [][StoNext]_vars

-----------------------------------------------------------------------------
(* Specification SpecStart: SpecBatch with a /search candidate that has no  *)
(* valuation.  Its liquidity, 0, is not below 0.03 times its market cap, 0, *)
(* so discover admits it, with start_market_cap 0.                          *)

ZeroCapCandidates == {[marketCapUsd |-> 0, liquidityUsd |-> 0]}

StartNext ==
    \/ Tick
    \/ \E mint \in Mints, token \in Candidates \cup ZeroCapCandidates : DiscoverBounded(MaxEnqueue, mint, token)
    \/ PSSelect("w1")
    \/ PSFetch("w1")
    \/ PSUpdateHot("w1")
    \/ PSLoadToken("w1")
    \/ PSProcess("w1")
    \/ PSPromote("w1")
    \/ PSDlqDelete("w1")
    \/ PSRespond("w1")

SpecStart == Init /\ [][StartNext]_vars

-----------------------------------------------------------------------------
(* Specification SpecVolume: SpecBatch with answers of the API whose volume *)
(* figures are absent, not numbers or negative.                             *)

VolNext ==
    \/ Tick
    \/ \E mint \in Mints, token \in Candidates : DiscoverBounded(MaxEnqueue, mint, token)
    \/ \E mint \in Mints : DqEnqueue(mint)
    \/ PSSelect("w1")
    \/ PSFetchVolumes("w1")
    \/ PSUpdateHot("w1")
    \/ PSLoadToken("w1")
    \/ PSProcess("w1")
    \/ PSPromote("w1")
    \/ PSDlqDelete("w1")
    \/ PSRespond("w1")

SpecVolume == Init /\ [][VolNext]_vars

-----------------------------------------------------------------------------
(* process-stats/index.ts: the dead-letter branch when send-message fails.  *)
(* The API requests of a message at retryCount >= MAX_RETRIES fail, the     *)
(* invocation of send-message for the dead-letter queue returns an error or *)
(* throws, which is logged, and the handler goes on to delete the original. *)

PSFetchDlqFails(w) ==
    /\ ps[w].pc = "fetch"
    /\ apiCalls < MaxApiCalls
    /\ RetryCountOf(Current(w).message) >= MAX_RETRIES
    /\ apiCalls' = apiCalls + 1
    /\ ps' = [ps EXCEPT ![w] = [@ EXCEPT !.failureCount = @ + 1, !.pc = "dlqDelete"]]
    /\ UNCHANGED <<now, tokens, token_hotness, historical_records, queue, dlq, nextId,
                   ae, rm, cls, rt, dr, pr, ing, qt>>

-----------------------------------------------------------------------------
(* Specification SpecDeadLetter: SpecBatch with a dead-letter queue that    *)
(* may refuse a message.                                                    *)

DlNext ==
    \/ Tick
    \/ \E mint \in Mints, token \in Candidates : DiscoverBounded(MaxEnqueue, mint, token)
    \/ \E mint \in Mints : DqEnqueue(mint)
    \/ PSSelect("w1")
    \/ PSFetch("w1")
    \/ PSFetchDlqFails("w1")
    \/ PSUpdateHot("w1")
    \/ PSLoadToken("w1")
    \/ PSProcess("w1")
    \/ PSPromote("w1")
    \/ PSDlqDelete("w1")
    \/ PSRespond("w1")

SpecDeadLetter == Init /\ [][DlNext]_vars

-----------------------------------------------------------------------------
(* Properties *)

Promoted(m) == HotRows(m) # {}
Active(m) == m \in DOMAIN tokens /\ tokens[m].is_active
Archived(m) == m \in DOMAIN tokens /\ ~tokens[m].is_active

DlqCopies(id) == {i \in DOMAIN dlq : dlq[i].ofMessage = id}

\* C1. Queue exclusivity: two read-messages calls whose visibility windows
\* overlap never return the same message.
C1_QueueExclusivity ==
    \A c1, c2 \in Callers :
        c1 # c2 =>
            \A id \in rm[c1].returned \cap rm[c2].returned :
                \/ rm[c1].at + VISIBILITY_TIMEOUT_S * 1000 <= rm[c2].at
                \/ rm[c2].at + VISIBILITY_TIMEOUT_S * 1000 <= rm[c1].at

\* C2. Archival exclusion: no step turns the active row of an entity that has
\* a promotion record into an archived row.
C2_ArchivalExclusion ==
    [][\A m \in Mints :
          (Promoted(m) /\ Active(m)) =>
              ~(m \in DOMAIN tokens' /\ ~tokens'[m].is_active)]_vars

\* C3. Promoted and Archived are terminal: an archived entity gets no
\* promotion record afterwards and does not become active again.
C3_TerminalStates ==
    [][\A m \in Mints :
          (Archived(m) /\ ~Promoted(m)) =>
              /\ \A i \in DOMAIN token_hotness' : token_hotness'[i].token_mint # m
              /\ ~(m \in DOMAIN tokens' /\ tokens'[m].is_active)]_vars

\* C4. Idempotent reprocessing: processing a message whose token already has
\* a promotion record changes no table but the queue (no history record, no
\* change to the cumulative volumes, no promotion record) and counts no
\* failure.
C4_ReprocessingIsNoOp ==
    [][\A w \in Workers :
          (ps[w].pc = "updateHot" /\ ps'[w].pc # "updateHot")
          => /\ historical_records' = historical_records
             /\ token_hotness' = token_hotness
             /\ tokens' = tokens
             /\ ps'[w].failureCount = ps[w].failureCount]_vars

\* C5. At most one promotion record per mint, in every reachable state.
C5_OnePromotionRecord ==
    \A m \in Mints : Cardinality(HotRows(m)) <= 1

\* C5 witness: a worker classified the token as hot and its insert was
\* rejected because another worker's promotion record is already there.
C5_Witness ==
    \E w \in Workers :
        /\ ps[w].pc = "update"
        /\ Cardinality(HotRows(Current(w).message.mint)) = 1

\* C6. A message is dead-lettered exactly once: the dead-letter queue never
\* holds two copies of one message, and once no worker is between the copy
\* and the delete the original is gone from the main queue.
C6_DeadLetteredOnce ==
    \A id \in 1 .. (nextId - 1) :
        /\ Cardinality(DlqCopies(id)) <= 1
        /\ (/\ DlqCopies(id) # {}
            /\ \A w \in Workers : ~(ps[w].pc = "dlqDelete" /\ Current(w).id = id))
           => id \notin DOMAIN queue

C9_RetryMonotonic ==
    [][rt'.retryCount = rt.retryCount + 1 =>
          /\ rt'.delay[1] <= RtMaxDelay
          /\ rt.delay # Null =>
               /\ rt'.delay[1] > rt.delay[1]
               /\ rt'.nextRetryTime[1] > rt.nextRetryTime[1]]_vars

\* C9 witness: a message of the shared policy has failed MAX_RETRIES times.
C9_Witness ==
    /\ rt.variant = "shared"
    /\ rt.retryCount = SHARED_MAX_RETRIES
    /\ rt.delay # Null

\* the four inequalities of the hotness criteria on the arguments of the call
AllFour ==
    /\ cls.currentMarketCap >= 3 * cls.startMarketCap
    /\ RatioGe(cls.cumulativeBuyVolume, cls.currentMarketCap, 5)
    /\ cls.cumulativeNetVolume > 0
    /\ RatioGe(cls.currentLiquidity, cls.currentMarketCap, 3)

C12_DequeueEligibility ==
    [][\A w \in Workers :
          (ps[w].pc = "idle" /\ ps'[w].pc = "fetch") =>
              \A k \in DOMAIN ps'[w].batch :
                  LET message == ps'[w].batch[k].message
                  IN \/ message.nextRetryTime = Null
                     \/ message.nextRetryTime[1] <= now]_vars

\* a mint is tracked when it has a row in tokens (active or archived) or a
\* promotion record
Tracked(m) == m \in DOMAIN tokens \/ Promoted(m)

\* C13. Ingestion is idempotent per key: no step writes a new tokens row for
\* a mint that is already tracked as active, archived or promoted.
C13_IngestionIdempotent ==
    [][\A m \in Mints :
          (Tracked(m) /\ m \notin DOMAIN tokens) => m \notin DOMAIN tokens']_vars

\* C14. Admission filter: a row enters tokens only with liquidity_usd >=
\* 0.03 * market_cap_usd; a candidate rejected by the filter is reported with
\* a reason and leaves tokens, historical_records and the queue unchanged;
\* and a candidate that has no tokens row and passes the filter can be
\* admitted.
C14_AdmissionFilter ==
    [][/\ \A m \in Mints :
            (m \notin DOMAIN tokens /\ m \in DOMAIN tokens') =>
                /\ 100 * tokens'[m].liquidity_usd >= 3 * tokens'[m].market_cap_usd
                /\ dr'.validTokens = {m}
       /\ (dr' # dr /\ dr'.rejectedTokens # {}) =>
            /\ tokens' = tokens
            /\ historical_records' = historical_records
            /\ queue' = queue
            /\ nextId' = nextId
            /\ \A r \in dr'.rejectedTokens : r.reason = "Insufficient liquidity ratio"
       /\ \A m \in Mints, token \in Candidates :
            (/\ m \notin DOMAIN tokens
             /\ 100 * token.liquidityUsd >= 3 * token.marketCapUsd)
            => ENABLED (Discover(m, token) /\ m \in DOMAIN tokens')]_vars

\* C14 witness: the latest candidate was rejected by the liquidity filter
\* and the mint has no row, no history record and no message.
C14_Witness ==
    /\ dr.rejectedTokens # {}
    /\ tokens = EmptyTable
    /\ historical_records = <<>>
    /\ queue = EmptyTable

\* C15. A processing that fails validation of the stats, at retryCount below
\* MAX_RETRIES, leaves the message in the queue with retryCount one higher
\* and a nextRetryTime after now.
C15_ValidationFailureRetried ==
    [][\A w \in Workers :
          (/\ ps[w].pc \in {"process", "updateHot"}
           /\ ps'[w].failureCount = ps[w].failureCount + 1
           /\ ~validateTokenStats(ps[w].stats[1]).isValid
           /\ RetryCountOf(Current(w).message) < MAX_RETRIES
           /\ Current(w).id \in DOMAIN queue)
          => /\ Current(w).id \in DOMAIN queue'
             /\ LET message == queue'[Current(w).id].message
                IN /\ RetryCountOf(message) = RetryCountOf(Current(w).message) + 1
                   /\ message.nextRetryTime # Null
                   /\ message.nextRetryTime[1] > now]_vars

C17_NotFoundDeletesMessage ==
    [][\A w \in Workers :
          (/\ ps[w].pc = "loadToken"
           /\ ps'[w].pc # "loadToken"
           /\ Current(w).message.mint \notin DOMAIN tokens)
          => /\ Current(w).id \notin DOMAIN queue'
             /\ \A id \in DOMAIN queue \ {Current(w).id} :
                    id \in DOMAIN queue' /\ queue'[id] = queue[id]
             /\ dlq' = dlq
             /\ ps'[w].failureCount = ps[w].failureCount
             /\ ps'[w].successCount = ps[w].successCount
             /\ tokens' = tokens
             /\ token_hotness' = token_hotness
             /\ historical_records' = historical_records]_vars

\* C17 witness: a batch of two messages of a mint that has no row in tokens
\* and no promotion record; the first message is gone from the queue with no
\* failure counted and nothing dead-lettered, and the worker has loaded
\* nothing for the second.
C17_Witness ==
    \E w \in Workers :
        /\ Len(ps[w].batch) = 2
        /\ ps[w].i = 2
        /\ ps[w].pc = "loadToken"
        /\ Current(w).message.mint \notin DOMAIN tokens
        /\ token_hotness = <<>>
        /\ ps[w].batch[1].id \notin DOMAIN queue
        /\ ps[w].failureCount = 0
        /\ dlq = <<>>

\* C18. Every call of send-message (each draws one SERIAL id) leaves a new
\* row with that id in the queue, created at now, visible at once, and with
\* a message_id no other row has.
C18_EnqueueAlwaysAddsFreshRow ==
    [][nextId' = nextId + 1 =>
          /\ nextId \in DOMAIN queue'
          /\ queue'[nextId].created_at = now
          /\ queue'[nextId].visible_after = Some(now)
          /\ \A k \in DOMAIN queue' \ {nextId} :
                 queue'[k].message_id # queue'[nextId].message_id]_vars

\* C19. Crash recovery: a message that read-messages checked out and whose
\* visibility timeout has lapsed (visible_after <= now) is returned by the
\* next read-messages call.
C19_LapsedCheckoutIsEligible ==
    [][\A c \in Callers :
          (rm[c].pc = "idle" /\ rm'[c].pc = "selected") =>
              \A id \in DOMAIN queue :
                  (/\ queue[id].status = "processing"
                   /\ queue[id].visible_after # Null
                   /\ queue[id].visible_after[1] <= now)
                  => id \in rm'[c].messages]_vars

\* C20. With the deadline sweep run again and again, every token that is
\* active, past its deadline and without a promotion record is eventually
\* archived, unless a process-stats run promotes it first (it then has a
\* promotion record and its tokens row is deleted).
C20_ExpiredEventuallyArchived ==
    \A m \in Mints :
        (Active(m) /\ tokens[m].deadline < now /\ ~Promoted(m))
            ~> (Archived(m) \/ Promoted(m) \/ m \notin DOMAIN tokens)

\* C20 witness: the sweep has archived a token past its deadline that has no
\* promotion record.
C20_Witness ==
    \E m \in Mints :
        /\ Archived(m)
        /\ tokens[m].deadline < now
        /\ ~Promoted(m)
        /\ ae.pc = "idle"

\* the valuation and the liquidity of a row are non-negative numbers
NonNegativeFigures(row) == row.market_cap_usd >= 0 /\ row.liquidity_usd >= 0

\* C21. Every row that process-stats commits (tokens, token_hotness,
\* historical_records) has market_cap_usd >= 0 and liquidity_usd >= 0, and
\* a processing whose answer has a market cap or a liquidity that is missing,
\* not a number or negative changes no row of tokens or token_hotness and
\* appends no history record.
C21_InvalidStatsNeverCommitted ==
    /\ [](/\ \A m \in DOMAIN tokens : NonNegativeFigures(tokens[m])
          /\ \A i \in DOMAIN token_hotness : NonNegativeFigures(token_hotness[i])
          /\ \A i \in DOMAIN historical_records : NonNegativeFigures(historical_records[i]))
    /\ [][\A w \in Workers :
            (/\ ps[w].pc \in {"process", "updateHot"}
             /\ ps'[w] # ps[w]
             /\ \/ ps[w].stats[1].marketCapUsdType # "number"
                \/ ps[w].stats[1].liquidityUsdType # "number"
                \/ ps[w].stats[1].marketCapUsd < 0
                \/ ps[w].stats[1].liquidityUsd < 0)
            => /\ tokens' = tokens
               /\ token_hotness' = token_hotness
               /\ historical_records' = historical_records
               /\ ps'[w].failureCount = ps[w].failureCount + 1
               /\ ps'[w].successCount = ps[w].successCount]_vars

\* C21 witness: in a batch of two messages of one token, one processing
\* updated the row from a valid answer and the other, whose answer was
\* rejected by the validation, counted a failure and wrote nothing: the row
\* and the history are as discover and the one update wrote them.
C21_Witness ==
    \E w \in Workers, m \in Mints :
        /\ ps[w].pc = "respond"
        /\ ps[w].failureCount = 1
        /\ ps[w].successCount = 1
        /\ Len(ps[w].batch) = 2
        /\ m \in DOMAIN tokens
        /\ tokens[m].market_cap_usd = 400000
        /\ Len(historical_records) = 2
        /\ dlq = <<>>
        /\ \E id \in DOMAIN queue : queue[id].message.retryCount = Some(0)

\* C22. Every process-stats invocation that read messages ends by returning
\* a summary whose total is the number of messages read and whose success
\* and failure counts are the invocation's counters, each message counted in
\* at most one of them.
C22_CycleReturnsSummary ==
    [][\A w \in Workers :
          (ps[w].pc = "respond" /\ ps'[w].pc = "idle")
          => /\ pr' = SummaryResponse(ps[w])
             /\ ps[w].successCount + ps[w].failureCount <= Len(ps[w].batch)]_vars

\* C23. A processing inserts a promotion record only if the market cap of
\* its answer exceeds HOTNESS_CHECK_THRESHOLD and checkTokenHotness answers
\* isHot on the updated figures; a processing whose valid answer has a
\* market cap that does not exceed the threshold inserts none, and updates
\* the figures of the tokens row, which stays in tokens as active as it was.
C23_PromotionOnlyAboveThreshold ==
    [][\A w \in Workers :
          (ps[w].pc = "process" /\ ps'[w] # ps[w]) =>
              LET token == ps[w].token[1]
                  stats == ps[w].stats[1]
                  mint  == Current(w).message.mint
                  data  == validateTokenStats(stats).processedData
                  buy   == token.cumulative_buy_volume + data.buyVolume
                  net   == token.cumulative_net_volume + data.netVolume
              IN /\ token_hotness' # token_hotness
                    => /\ stats.marketCapUsd > HOTNESS_CHECK_THRESHOLD
                       /\ checkTokenHotness(token.start_market_cap, stats.marketCapUsd,
                                            buy, net, stats.liquidityUsd).isHot
                 /\ (/\ validateTokenStats(stats).isValid
                     /\ stats.marketCapUsd <= HOTNESS_CHECK_THRESHOLD
                     /\ mint \in DOMAIN tokens)
                    => /\ token_hotness' = token_hotness
                       /\ mint \in DOMAIN tokens'
                       /\ tokens'[mint].is_active = tokens[mint].is_active
                       /\ tokens'[mint].market_cap_usd = stats.marketCapUsd
                       /\ tokens'[mint].liquidity_usd = stats.liquidityUsd
                       /\ tokens'[mint].cumulative_buy_volume = buy
                       /\ tokens'[mint].cumulative_net_volume = net]_vars

\* C24. checkTokenHotness answers isHot = false whenever currentMarketCap is
\* zero or negative, whatever the other four arguments are.
C24_NonPositiveValuationNotHot ==
    (cls.pc = "done" /\ cls.currentMarketCap <= 0) => ~cls.result.isHot

\* C25. update-message replaces the stored message and re-arms eligibility:
\* after the update that reschedules a failed message, the row holds the
\* new message and its visible_after is the nextRetryTime written in it.
C25_UpdateRearmsEligibility ==
    [][\A w \in Workers :
          (/\ ps[w].pc \in {"fetch", "updateHot", "process"}
           /\ ps'[w].failureCount = ps[w].failureCount + 1
           /\ Current(w).id \in DOMAIN queue
           /\ queue'[Current(w).id].message # queue[Current(w).id].message)
          => /\ queue'[Current(w).id].message.retryCount =
                    Some(RetryCountOf(Current(w).message) + 1)
             /\ queue'[Current(w).id].visible_after =
                    queue'[Current(w).id].message.nextRetryTime]_vars

\* C26. The deadline sweep archives a token only if, at the write that sets
\* is_active to false, the token's deadline is before now and the token is
\* still active and has no promotion record; a token whose deadline has not
\* passed is never archived.
C26_ArchiveOnlyExpiredActive ==
    [][\A m \in Mints :
          (/\ m \in DOMAIN tokens /\ tokens[m].is_active
           /\ m \in DOMAIN tokens' /\ ~tokens'[m].is_active)
          => /\ tokens[m].deadline < now
             /\ ~Promoted(m)]_vars

C30_EnqueueRetriesBounded ==
    /\ [](/\ ing.queueRetries <= MAX_QUEUE_RETRIES
          /\ ing.backoffMs <= QUEUE_BACKOFF_MAX_MS
          /\ ing.pc # "idle" => (ing.queueRetries < MAX_QUEUE_RETRIES /\ ~ing.queueSuccess))
    /\ [][(ing.pc = "enqueue" /\ ing' # ing) =>
             /\ tokens' = tokens
             /\ \/ ing'.pc = "idle" /\ ing'.queueSuccess
                                    /\ ing'.queueRetries = ing.queueRetries
                \/ ing'.pc = "backoff" /\ ing'.queueRetries = ing.queueRetries + 1
                                       /\ ing'.backoffMs > 0
                \/ ing'.pc = "idle" /\ ~ing'.queueSuccess
                                    /\ ing'.queueRetries = MAX_QUEUE_RETRIES
                                    /\ ing.queueRetries = MAX_QUEUE_RETRIES - 1
             /\ ing'.pc = "idle" => dr'.validTokens = {ing.mint}]_vars

\* C30 witness: three attempts failed and the loop gave the token up; its
\* row is in tokens, it has no message, and discover reported it as valid.
C30_Witness ==
    /\ ing.pc = "idle"
    /\ ing.queueRetries = MAX_QUEUE_RETRIES
    /\ ~ing.queueSuccess
    /\ ing.mint \in DOMAIN tokens
    /\ queue = EmptyTable
    /\ dr.validTokens = {ing.mint}
    /\ now = QueueBackoffMs(1) + QueueBackoffMs(2)

\* a message of the mint is in the main queue, waiting to be read
HasPendingMessage(m) ==
    \E id \in DOMAIN queue : queue[id].message.mint = m /\ queue[id].status = "pending"

\* C28. With the queue-tokens sweep run again and again, every active token
\* that has no message in the main queue (its enqueue by discover failed on
\* every attempt, or its message was consumed) eventually has a pending
\* message there, unless it stops being active first.
C28_ActiveEventuallyQueued ==
    \A m \in Mints :
        (Active(m) /\ ~HasPendingMessage(m)) ~> (HasPendingMessage(m) \/ ~Active(m))

\* C28 witness: discover gave the enqueue up after MAX_QUEUE_RETRIES failed
\* attempts, and the message the token now has is the one the sweep sent.
C28_Witness ==
    /\ ing.pc = "idle"
    /\ ing.queueRetries = MAX_QUEUE_RETRIES
    /\ ~ing.queueSuccess
    /\ Active(ing.mint)
    /\ qt.pc = "idle"
    /\ \E id \in DOMAIN queue : queue[id].message = SweepMessage(ing.mint)
    /\ apiCalls = 0

\* C29. Once a mint has a promotion record, no step adds a message for it to
\* the main queue.
C29_NoEnqueueAfterPromotion ==
    [][\A m \in Mints :
          Promoted(m) =>
              \A id \in DOMAIN queue' :
                  queue'[id].message.mint = m => id \in DOMAIN queue]_vars

\* C31. A storage error during an invocation of process-stats ends the
\* invocation for its batch as a failed run and leaves the messages
\* untouched: a failed queue read answers 500 and changes nothing, and after
\* a failed read or write of the entity store the worker goes on with no
\* further message, the queue is as it was (no message deleted, none with a
\* new payload) and nothing is dead-lettered.
C31_StorageErrorAbortsCycle ==
    [][/\ PSQueueError("w1") =>
            /\ pr'.status = 500
            /\ queue' = queue
            /\ dlq' = dlq
       /\ PSStoreError("w1") =>
            /\ ps'["w1"].pc = "respond"
            /\ queue' = queue
            /\ dlq' = dlq]_vars

\* C32. A processing that loaded a token whose start_market_cap is not a
\* positive number, with a valid answer and retryCount below MAX_RETRIES, is
\* a retryable failure: tokens and token_hotness are left as they were, a
\* failure is counted, and the message stays in the queue with retryCount
\* one higher.
C32_InvalidStartIsRetryableFailure ==
    [][\A w \in Workers :
          (/\ ps[w].pc = "process"
           /\ ps'[w] # ps[w]
           /\ ps[w].token[1].start_market_cap <= 0
           /\ validateTokenStats(ps[w].stats[1]).isValid
           /\ RetryCountOf(Current(w).message) < MAX_RETRIES
           /\ Current(w).id \in DOMAIN queue)
          => /\ tokens' = tokens
             /\ token_hotness' = token_hotness
             /\ ps'[w].failureCount = ps[w].failureCount + 1
             /\ ps'[w].successCount = ps[w].successCount
             /\ Current(w).id \in DOMAIN queue'
             /\ RetryCountOf(queue'[Current(w).id].message) =
                    RetryCountOf(Current(w).message) + 1]_vars

\* C35. Every step that counts a message as succeeded leaves that message
\* deleted from the main queue.
C35_SuccessDeletesMessage ==
    [][\A w \in Workers :
          ps'[w].successCount = ps[w].successCount + 1
          => Current(w).id \notin DOMAIN queue']_vars

\* C33. Volume figures are best-effort.  An answer is valid exactly when its
\* market cap is a positive number and its liquidity a non-negative number,
\* whatever its volumes are; a buy or sell volume that is absent, not a
\* number or negative counts as zero, net volume is the difference of the
\* resulting buy and sell volumes; and the processing of a valid answer
\* counts no failure and writes the cumulative volumes read plus these.
C33_VolumesBestEffort ==
    [][\A w \in Workers :
          (ps[w].pc \in {"process", "updateHot"} /\ ps'[w] # ps[w]) =>
              LET stats == ps[w].stats[1]
                  mint  == Current(w).message.mint
                  data  == validateTokenStats(stats).processedData
                  vol(v, type) == IF v # Null /\ type = "number" /\ v[1] >= 0 THEN v[1] ELSE 0
                  buy   == vol(stats.buyVolume, stats.buyVolumeType)
                  sell  == vol(stats.sellVolume, stats.sellVolumeType)
                  figuresOk == /\ stats.marketCapUsdType = "number" /\ stats.marketCapUsd > 0
                               /\ stats.liquidityUsdType = "number" /\ stats.liquidityUsd >= 0
                  read  == IF ps[w].pc = "process" THEN ps[w].token[1] ELSE ps[w].hotToken[1]
              IN /\ validateTokenStats(stats).isValid <=> figuresOk
                 /\ data.buyVolume = buy
                 /\ data.sellVolume = sell
                 /\ data.netVolume = buy - sell
                 /\ figuresOk =>
                      /\ ps'[w].failureCount = ps[w].failureCount
                      /\ (tokens' # tokens /\ mint \in DOMAIN tokens') =>
                           /\ tokens'[mint].cumulative_buy_volume =
                                  read.cumulative_buy_volume + buy
                           /\ tokens'[mint].cumulative_net_volume =
                                  read.cumulative_net_volume + buy - sell
                      /\ token_hotness' # token_hotness =>
                           \A i \in DOMAIN token_hotness' :
                               (token_hotness'[i].token_mint = mint
                                /\ (i \notin DOMAIN token_hotness
                                    \/ token_hotness'[i] # token_hotness[i]))
                               => /\ token_hotness'[i].cumulative_buy_volume =
                                         read.cumulative_buy_volume + buy
                                  /\ token_hotness'[i].cumulative_net_volume =
                                         read.cumulative_net_volume + buy - sell]_vars

\* C33 witness: a batch of two messages of one token was processed without a
\* failure, from an answer with a negative buy volume and 3000 of sells and
\* an answer with 6000 of buys and a negative sell volume: the row holds
\* 6000 of buys and 3000 net.
C33_Witness ==
    \E w \in Workers, m \in Mints :
        /\ ps[w].pc = "respond"
        /\ Len(ps[w].batch) = 2
        /\ ps[w].successCount = 2
        /\ ps[w].failureCount = 0
        /\ m \in DOMAIN tokens
        /\ tokens[m].cumulative_buy_volume = 6000
        /\ tokens[m].cumulative_net_volume = 3000

\* C34. The payload of every dead-lettered message carries its whole failure
\* history: one entry for each failed attempt, that is for each of the
\* retryCount failures that rescheduled it and for the failure that
\* dead-lettered it, numbered in order.
C34_DeadLetterCarriesHistory ==
    \A i \in DOMAIN dlq :
        LET message == dlq[i].message
        IN /\ Len(message.retryHistory) = RetryCountOf(message) + 1
           /\ \A k \in DOMAIN message.retryHistory :
                  message.retryHistory[k].retryCount = k - 1

\* C36. No committed increment is lost: every step of a worker that commits
\* the regular update of a tokens row (it appends the history record of the
\* update) leaves the cumulative volumes of the row at the values the row
\* had when the write was committed plus the window volumes of the answer
\* the worker processed, also when another worker has written the row since
\* this one read it.
C36_NoLostVolumeUpdate ==
    [][\A w \in Workers :
          (/\ ps[w].pc \in {"process", "update"}
           /\ ps'[w] # ps[w]
           /\ Current(w).message.mint \in DOMAIN tokens
           /\ Len(historical_records') = Len(historical_records) + 1)
          => LET mint == Current(w).message.mint
                 data == validateTokenStats(ps[w].stats[1]).processedData
             IN /\ tokens'[mint].cumulative_buy_volume =
                       tokens[mint].cumulative_buy_volume + data.buyVolume
                /\ tokens'[mint].cumulative_net_volume =
                       tokens[mint].cumulative_net_volume + data.netVolume]_vars

\* C37. No message is lost on the exhausted-retries path: the step that
\* deletes the original of a message the handler meant to dead-letter finds
\* a copy of it in the dead-letter queue.
C37_DeleteOnlyAfterDeadLetter ==
    [][\A w \in Workers :
          (/\ ps[w].pc = "dlqDelete"
           /\ Current(w).id \in DOMAIN queue
           /\ Current(w).id \notin DOMAIN queue')
          => DlqCopies(Current(w).id) # {}]_vars

\* C38. The retryCount of every message in the main queue is between 0 and
\* MAX_RETRIES, and a step changes it only by adding one, when a worker
\* counts a failure of that message.
C38_RetryCountBounded ==
    /\ [](\A id \in DOMAIN queue :
              /\ RetryCountOf(queue[id].message) >= 0
              /\ RetryCountOf(queue[id].message) <= MAX_RETRIES)
    /\ [][\A id \in DOMAIN queue \cap DOMAIN queue' :
            RetryCountOf(queue'[id].message) # RetryCountOf(queue[id].message)
            => /\ RetryCountOf(queue'[id].message) = RetryCountOf(queue[id].message) + 1
               /\ \E w \in Workers :
                      /\ ps[w].pc # "idle"
                      /\ Current(w).id = id
                      /\ ps'[w].failureCount = ps[w].failureCount + 1]_vars

\* the messages of a mint in the main queue
MessagesOf(m) == {id \in DOMAIN queue : queue[id].message.mint = m}

\* C39. The main queue never holds two messages of one mint.
C39_OneMessagePerMint ==
    \A m \in Mints : Cardinality(MessagesOf(m)) <= 1

\* C40. When a worker ends the processing of a message, the mint of the
\* message has a row in at most one of tokens and token_hotness.
C40_ActiveOrPromotedNotBoth ==
    [][\A w \in Workers :
          (/\ ps[w].pc \notin {"idle", "respond"}
           /\ \/ ps'[w].i # ps[w].i
              \/ ps'[w].pc = "respond")
          => LET mint == Current(w).message.mint
             IN ~(/\ mint \in DOMAIN tokens'
                  /\ \E i \in DOMAIN token_hotness' : token_hotness'[i].token_mint = mint)]_vars

====
